---- MODULE Spec2Model ----
(***************************************************************************)
(* Model of the Jervis front-end: the App shell with its sidebar, the chat *)
(* screen (TextFeatures), the image and video screens (ImageFeatures,      *)
(* VideoFeatures) and the live audio screen (AudioFeatures).               *)
(*                                                                         *)
(* Three specifications share the module.  Spec follows the App shell with *)
(* the chat, image and video screens.  SpecAudio follows one instance of   *)
(* AudioFeatures from its mount to after its unmount, through any clicks,  *)
(* starts and session events.  SpecPlay follows the playback of one        *)
(* listening period with the clock running.  An `await` of the source is a *)
(* suspension point: the handler's continuation is an action of its own    *)
(* and other handlers may run before it.                                   *)
(***************************************************************************)
EXTENDS Integers, Sequences, FiniteSets, TLC

\* ---------------------------------------------------------------- bounds
MaxStarts == 2   \* startAssistant invocations that pass the isListening test
MaxClicks == 3   \* clicks on the Start/Stop button and the tabs of the audio screen
MaxLifeMsgs == 1 \* live server messages delivered in SpecAudio
MaxMsgs   == 2   \* live server messages delivered in SpecPlay
MaxTime   == 1   \* ticks of the wall clock

MaxSubmits == 2  \* submits the chat, image and video screens accept
MaxPolls   == 1  \* getVideosOperation polls of one video generation

StartIds  == 1..MaxStarts
AudioTabs == {"assistant", "transcribe", "tts"}
Durations == {1, 2}   \* lengths of an audio chunk, in ticks

Max(a, b) == IF a >= b THEN a ELSE b
Min(a, b) == IF a <= b THEN a ELSE b

\* ------------------------------------------------------------- variables
VARIABLES
    \* AudioFeatures: React state
    mounted, audioTab, isListening, audioError,
    \* AudioFeatures: refs (0 stands for null, k for the object made by start k)
    sessionPromiseRef, mediaStreamRef, audioContextRef, scriptProcessorRef,
    mediaStreamSourceRef, outputAudioContextRef, nextStartTimeRef, audioQueueRef,
    \* browser and SDK objects the screen has created
    startPc, startTab, streams, inCtxOpen, outCtxOpen, outCreated,
    sess, closeCalled, procs,
    \* microphone capture: the input context each script processor was made on,
    \* the sessions with a send chained on their unresolved promise, and the
    \* calls of sendRealtimeInput made so far
    procCtx, deferred, sent,
    \* live server messages and playback
    msgCount, decoding, sources, lastInterrupt, now,
    \* user actions taken so far
    clicks

audioVars == << mounted, audioTab, isListening, audioError,
                sessionPromiseRef, mediaStreamRef, audioContextRef,
                scriptProcessorRef, mediaStreamSourceRef, outputAudioContextRef,
                nextStartTimeRef, audioQueueRef,
                startPc, startTab, streams, inCtxOpen, outCtxOpen, outCreated,
                sess, closeCalled, procs, procCtx, deferred, sent,
                msgCount, decoding, sources, lastInterrupt, now, clicks >>

VARIABLES
    \* App: React state, and the feature of the last sidebar click
    activeFeature, lastClicked,
    \* TextFeatures: React state, chatRef, and the request handleSubmit awaits
    messages, input, chatLoading, useGrounding, useMaps, useThinkingMode,
    chatRef, chatReq,
    \* ImageFeatures: React state, and where handleSubmit stands
    imageTab, imagePrompt, imageFile, imageResult, imageLoading, imageError,
    imagePc, imageOp,
    \* VideoFeatures: React state, and where handleSubmit stands
    videoTab, videoPrompt, videoFile, videoImageFile, videoResult, videoLoading,
    videoError, apiKeyReady, keyCheck, videoPc, polls,
    \* history: submits accepted, SDK requests issued, requests that failed,
    \* failures shown to the user, a failure with no user action after it
    submits, sdkRequests, failures, failReports, failedSince

appShell  == << activeFeature, lastClicked >>
chatVars  == << messages, input, chatLoading, useGrounding, useMaps,
                useThinkingMode, chatRef, chatReq >>
imageVars == << imageTab, imagePrompt, imageFile, imageResult, imageLoading,
                imageError, imagePc, imageOp >>
videoVars == << videoTab, videoPrompt, videoFile, videoImageFile, videoResult,
                videoLoading, videoError, apiKeyReady, keyCheck, videoPc, polls >>
histVars  == << submits, sdkRequests, failures, failReports, failedSince >>
appVars   == << appShell, chatVars, imageVars, videoVars, histVars >>

vars == << audioVars, appVars >>

\* -------------------------------------------------------- AudioFeatures
\* the refs and state of a newly made AudioFeatures, AudioFeatures.tsx 11-32
\* (the transcription texts and the text-to-speech handler are left out: they
\* touch none of the refs below)
AudioFresh ==
    /\ audioTab = "assistant"
    /\ isListening = FALSE
    /\ audioError = "null"
    /\ sessionPromiseRef = 0
    /\ mediaStreamRef = 0
    /\ audioContextRef = 0
    /\ scriptProcessorRef = 0
    /\ mediaStreamSourceRef = 0
    /\ outputAudioContextRef = 0
    /\ nextStartTimeRef = 0
    /\ audioQueueRef = {}
    /\ startPc = [k \in StartIds |-> "idle"]
    /\ startTab = [k \in StartIds |-> "assistant"]
    /\ streams = {}
    /\ inCtxOpen = {}
    /\ outCtxOpen = {}
    /\ outCreated = [k \in StartIds |-> 0]
    /\ sess = [k \in StartIds |-> "none"]
    /\ closeCalled = {}
    /\ procs = {}
    /\ procCtx = [k \in StartIds |-> 0]
    /\ deferred = {}
    /\ sent = {}
    /\ msgCount = 0
    /\ decoding = {}
    /\ sources = {}
    /\ lastInterrupt = 0
    /\ now = 0
    /\ clicks = 0

\* a state setter of an unmounted component does nothing
SetState(new, old) == IF mounted THEN new ELSE old

\* source.stop() on every source of the queue: a source that has not begun is
\* cut to nothing, one that is playing is cut at the current time
StopSource(s) ==
    [s EXCEPT !.state = "stopped", !.end = Max(s.start, Min(s.end, now))]

StopQueue(srcs, queue) ==
    {IF s.msg \in queue /\ s.state = "scheduled" THEN StopSource(s) ELSE s : s \in srcs}

\* stopListening that stops the queued sources but forgets to empty the queue
StopListeningKeepsQueue ==
    /\ isListening' = FALSE
    /\ closeCalled' = IF sessionPromiseRef # 0
                      THEN closeCalled \cup {sessionPromiseRef} ELSE closeCalled
    /\ sessionPromiseRef' = 0
    /\ procs' = procs \ {scriptProcessorRef}
    /\ scriptProcessorRef' = 0
    /\ mediaStreamSourceRef' = 0
    /\ streams' = streams \ {mediaStreamRef}
    /\ mediaStreamRef' = 0
    /\ IF audioContextRef # 0 /\ audioContextRef \in inCtxOpen
       THEN inCtxOpen' = inCtxOpen \ {audioContextRef} /\ audioContextRef' = 0
       ELSE UNCHANGED << inCtxOpen, audioContextRef >>
    /\ IF outputAudioContextRef # 0 /\ outputAudioContextRef \in outCtxOpen
       THEN outCtxOpen' = outCtxOpen \ {outputAudioContextRef} /\ outputAudioContextRef' = 0
       ELSE UNCHANGED << outCtxOpen, outputAudioContextRef >>
    /\ sources' = StopQueue(sources, audioQueueRef)
    /\ audioQueueRef' = audioQueueRef
    /\ nextStartTimeRef' = 0

\* stopListening, AudioFeatures.tsx 34-66
StopListening ==
    /\ isListening' = FALSE
    /\ closeCalled' = IF sessionPromiseRef # 0
                      THEN closeCalled \cup {sessionPromiseRef} ELSE closeCalled
    /\ sessionPromiseRef' = 0
    /\ procs' = procs \ {scriptProcessorRef}
    /\ scriptProcessorRef' = 0
    /\ mediaStreamSourceRef' = 0
    /\ streams' = streams \ {mediaStreamRef}
    /\ mediaStreamRef' = 0
    /\ IF audioContextRef # 0 /\ audioContextRef \in inCtxOpen
       THEN inCtxOpen' = inCtxOpen \ {audioContextRef} /\ audioContextRef' = 0
       ELSE UNCHANGED << inCtxOpen, audioContextRef >>
    /\ IF outputAudioContextRef # 0 /\ outputAudioContextRef \in outCtxOpen
       THEN outCtxOpen' = outCtxOpen \ {outputAudioContextRef} /\ outputAudioContextRef' = 0
       ELSE UNCHANGED << outCtxOpen, outputAudioContextRef >>
    /\ sources' = StopQueue(sources, audioQueueRef)
    /\ audioQueueRef' = {}
    /\ nextStartTimeRef' = 0

\* what stopListening leaves alone
StopFrame == << startPc, startTab, outCreated, sess, procCtx, deferred, sent,
               msgCount, decoding, lastInterrupt, now >>

IdleStarts == {k \in StartIds : startPc[k] = "idle"}
NextStart  == CHOOSE k \in IdleStarts : \A j \in IdleStarts : k <= j

\* the Start/Stop button, startAssistant up to its await, AudioFeatures.tsx 68-79
ClickStart ==
    /\ UNCHANGED appVars
    /\ mounted
    /\ clicks < MaxClicks
    /\ clicks' = clicks + 1
    /\ audioTab \in {"assistant", "transcribe"}
    /\ IF isListening
       THEN /\ StopListening
            /\ UNCHANGED << mounted, audioTab, audioError >>
            /\ UNCHANGED StopFrame
       ELSE /\ IdleStarts # {}
            /\ isListening' = TRUE
            /\ audioError' = "null"
            /\ startPc' = [startPc EXCEPT ![NextStart] = "awaiting"]
            /\ startTab' = [startTab EXCEPT ![NextStart] = audioTab]
            /\ UNCHANGED << mounted, audioTab, sessionPromiseRef, mediaStreamRef,
                            audioContextRef, scriptProcessorRef, mediaStreamSourceRef,
                            outputAudioContextRef, nextStartTimeRef, audioQueueRef,
                            streams, inCtxOpen, outCtxOpen, outCreated, sess,
                            closeCalled, procs, procCtx, deferred, sent, msgCount,
                            decoding, sources, lastInterrupt, now >>

\* getUserMedia resolves: the rest of startAssistant's try block, 79-156
MediaResolve(k) ==
    /\ UNCHANGED appVars
    /\ UNCHANGED clicks
    /\ UNCHANGED << procCtx, deferred, sent >>
    /\ startPc[k] = "awaiting"
    /\ startPc' = [startPc EXCEPT ![k] = "done"]
    /\ mediaStreamRef' = k
    /\ streams' = streams \cup {k}
    /\ outputAudioContextRef' = k
    /\ outCtxOpen' = outCtxOpen \cup {k}
    /\ outCreated' = [outCreated EXCEPT ![k] = now]
    /\ audioContextRef' = k
    /\ inCtxOpen' = inCtxOpen \cup {k}
    /\ sessionPromiseRef' = k
    /\ sess' = [sess EXCEPT ![k] = "connecting"]
    /\ UNCHANGED << mounted, audioTab, isListening, audioError, scriptProcessorRef,
                    mediaStreamSourceRef, nextStartTimeRef, audioQueueRef, startTab,
                    closeCalled, procs, msgCount, decoding, sources, lastInterrupt, now >>

\* getUserMedia rejects: startAssistant's catch block, 158-162
MediaReject(k) ==
    /\ UNCHANGED appVars
    /\ UNCHANGED clicks
    /\ UNCHANGED << procCtx, deferred, sent >>
    /\ startPc[k] = "awaiting"
    /\ startPc' = [startPc EXCEPT ![k] = "failed"]
    /\ audioError' = SetState("Could not access microphone. Please grant permission and try again.", audioError)
    /\ isListening' = SetState(FALSE, isListening)
    /\ UNCHANGED << mounted, audioTab, sessionPromiseRef, mediaStreamRef,
                    audioContextRef, scriptProcessorRef, mediaStreamSourceRef,
                    outputAudioContextRef, nextStartTimeRef, audioQueueRef, startTab,
                    streams, inCtxOpen, outCtxOpen, outCreated, sess, closeCalled,
                    procs, msgCount, decoding, sources, lastInterrupt, now >>

\* getUserMedia resolves and a later statement of the try block throws: the
\* constructor of the output context (81), of the input context (82) or
\* startLiveConversation (156), after `made` contexts were created; the catch
\* block, 158-162, runs with what was stored so far
SetupFail(k, made) ==
    /\ UNCHANGED appVars
    /\ UNCHANGED clicks
    /\ UNCHANGED << procCtx, deferred, sent >>
    /\ startPc[k] = "awaiting"
    /\ startPc' = [startPc EXCEPT ![k] = "failed"]
    /\ mediaStreamRef' = k
    /\ streams' = streams \cup {k}
    /\ IF made >= 1
       THEN /\ outputAudioContextRef' = k
            /\ outCtxOpen' = outCtxOpen \cup {k}
            /\ outCreated' = [outCreated EXCEPT ![k] = now]
       ELSE UNCHANGED << outputAudioContextRef, outCtxOpen, outCreated >>
    /\ IF made >= 2
       THEN /\ audioContextRef' = k
            /\ inCtxOpen' = inCtxOpen \cup {k}
       ELSE UNCHANGED << audioContextRef, inCtxOpen >>
    /\ audioError' = SetState("Could not access microphone. Please grant permission and try again.", audioError)
    /\ isListening' = SetState(FALSE, isListening)
    /\ UNCHANGED << mounted, audioTab, sessionPromiseRef, scriptProcessorRef,
                    mediaStreamSourceRef, nextStartTimeRef, audioQueueRef, startTab,
                    sess, closeCalled, procs, msgCount, decoding, sources,
                    lastInterrupt, now >>

\* a tab button of the audio screen, 192-202
ClickTab(t) ==
    /\ UNCHANGED appVars
    /\ mounted
    /\ clicks < MaxClicks
    /\ clicks' = clicks + 1
    /\ StopListening
    /\ audioTab' = t
    /\ UNCHANGED << mounted, audioError >>
    /\ UNCHANGED StopFrame

\* the screen unmounts: the effect cleanup, 186-190
AudioCleanup ==
    /\ mounted' = FALSE
    /\ StopListening
    /\ UNCHANGED << audioTab, audioError, clicks >>
    /\ UNCHANGED StopFrame

\* a call of session.sendRealtimeInput, 99: the session it is made on, the
\* session of sessionPromiseRef at the time of the call (0 for null), and
\* whether close() had been called on the session before
Send(k) == [to |-> k, ref |-> sessionPromiseRef, closed |-> FALSE]

\* ai.live.connect succeeds: the SDK calls onOpen (88-105) and resolves the
\* promise startLiveConversation returned (part_000 180-206); the callbacks
\* chained on the promise run in the order they were chained, a send of
\* onaudioprocess (98-100) before a close of stopListening (38-40)
SessionOpen(k) ==
    /\ UNCHANGED appVars
    /\ UNCHANGED clicks
    /\ sess[k] = "connecting"
    /\ sess' = [sess EXCEPT ![k] = "open"]
    /\ IF audioContextRef # 0 /\ mediaStreamRef # 0
       THEN /\ mediaStreamSourceRef' = k
            /\ scriptProcessorRef' = k
            /\ procs' = procs \cup {k}
            /\ procCtx' = [procCtx EXCEPT ![k] = audioContextRef]
       ELSE \* createMediaStreamSource of null throws
            UNCHANGED << mediaStreamSourceRef, scriptProcessorRef, procs, procCtx >>
    /\ deferred' = deferred \ {k}
    /\ sent' = IF k \in deferred THEN sent \cup {Send(k)} ELSE sent
    /\ UNCHANGED << mounted, audioTab, isListening, audioError, sessionPromiseRef,
                    mediaStreamRef, audioContextRef, outputAudioContextRef,
                    nextStartTimeRef, audioQueueRef, startPc, startTab, streams,
                    inCtxOpen, outCtxOpen, outCreated, closeCalled, msgCount,
                    decoding, sources, lastInterrupt, now >>

\* onaudioprocess of the script processor made by onOpen of session p, 94-102:
\* it fires while the processor is connected and its context is running, and
\* sends the captured block to the session of sessionPromiseRef, at once when
\* the promise is resolved and at its resolution otherwise
AudioProcess(p) ==
    /\ UNCHANGED appVars
    /\ UNCHANGED clicks
    /\ p \in procs
    /\ procCtx[p] \in inCtxOpen
    /\ sessionPromiseRef # 0
    /\ IF sess[sessionPromiseRef] = "connecting"
       THEN /\ deferred' = deferred \cup {sessionPromiseRef}
            /\ UNCHANGED sent
       ELSE /\ sent' = sent \cup {[to     |-> sessionPromiseRef,
                                   ref    |-> sessionPromiseRef,
                                   closed |-> sessionPromiseRef \in closeCalled
                                              \/ sess[sessionPromiseRef] = "closed"]}
            /\ UNCHANGED deferred
    /\ UNCHANGED << mounted, audioTab, isListening, audioError, sessionPromiseRef,
                    mediaStreamRef, audioContextRef, scriptProcessorRef,
                    mediaStreamSourceRef, outputAudioContextRef, nextStartTimeRef,
                    audioQueueRef, startPc, startTab, streams, inCtxOpen, outCtxOpen,
                    outCreated, sess, closeCalled, procs, procCtx, msgCount, decoding,
                    sources, lastInterrupt, now >>

\* a session is live from its opening until close() is called on it or it closes
LiveSessions == {k \in StartIds : sess[k] = "open" /\ k \notin closeCalled}

\* the source node onMessage builds for a decoded chunk, 130-137; times are kept
\* on the wall clock, the context's currentTime being the time since it was made
NewSource(h) ==
    LET ctx         == outputAudioContextRef
        currentTime == now - outCreated[ctx]
        startTime   == Max(currentTime, nextStartTimeRef)
    IN  [msg |-> h.msg, ctx |-> ctx, start |-> startTime + outCreated[ctx],
         end |-> startTime + h.dur + outCreated[ctx], state |-> "scheduled"]

\* onMessage up to its await, and its interrupted branch when it awaits nothing,
\* 106-147; the transcription text it keeps is not modelled
OnMessage(k, dur, intr) ==
    /\ UNCHANGED appVars
    /\ UNCHANGED clicks
    /\ UNCHANGED << procCtx, deferred, sent >>
    /\ k \in LiveSessions
    /\ msgCount < MaxMsgs
    /\ dur > 0 \/ intr
    /\ msgCount' = msgCount + 1
    /\ IF startTab[k] = "assistant" /\ dur > 0
       THEN /\ decoding' = IF outputAudioContextRef # 0
                           THEN decoding \cup {[msg |-> msgCount + 1, sess |-> k, dur |-> dur, intr |-> intr]}
                           ELSE decoding   \* decoding against a null context throws
            /\ UNCHANGED << sources, audioQueueRef, nextStartTimeRef, lastInterrupt >>
       ELSE /\ intr
            /\ sources' = StopQueue(sources, audioQueueRef)
            /\ audioQueueRef' = {}
            /\ nextStartTimeRef' = 0
            /\ lastInterrupt' = Max(lastInterrupt, msgCount + 1)
            /\ UNCHANGED decoding
    /\ UNCHANGED << mounted, audioTab, isListening, audioError, sessionPromiseRef,
                    mediaStreamRef, audioContextRef, scriptProcessorRef,
                    mediaStreamSourceRef, outputAudioContextRef, startPc, startTab,
                    streams, inCtxOpen, outCtxOpen, outCreated, sess, closeCalled,
                    procs, now >>

\* the rest of onMessage once decodeAudioData has settled, 130-146
DecodeSettled(h) ==
    /\ decoding' = decoding \ {h}
    /\ IF outputAudioContextRef = 0
       THEN \* createBufferSource of null throws, the handler ends here
            UNCHANGED << sources, audioQueueRef, nextStartTimeRef, lastInterrupt >>
       ELSE IF h.intr
            THEN /\ sources' = StopQueue(sources \cup {NewSource(h)}, audioQueueRef \cup {h.msg})
                 /\ audioQueueRef' = {}
                 /\ nextStartTimeRef' = 0
                 /\ lastInterrupt' = Max(lastInterrupt, h.msg)
            ELSE /\ sources' = sources \cup {NewSource(h)}
                 /\ audioQueueRef' = audioQueueRef \cup {h.msg}
                 /\ nextStartTimeRef' = NewSource(h).end - outCreated[outputAudioContextRef]
                 /\ UNCHANGED lastInterrupt
    /\ UNCHANGED << mounted, audioTab, isListening, audioError, sessionPromiseRef,
                    mediaStreamRef, audioContextRef, scriptProcessorRef,
                    mediaStreamSourceRef, outputAudioContextRef, startPc, startTab,
                    streams, inCtxOpen, outCtxOpen, outCreated, sess, closeCalled,
                    procs, msgCount, now >>

\* decodeAudioData settles for the chunk of message m
DecodeDone(m) ==
    /\ UNCHANGED appVars
    /\ UNCHANGED clicks
    /\ UNCHANGED << procCtx, deferred, sent >>
    /\ \E h \in decoding : h.msg = m /\ DecodeSettled(h)

\* a source plays to its end: source.onended, 138
SourceEnded(m) ==
    /\ UNCHANGED appVars
    /\ UNCHANGED clicks
    /\ UNCHANGED << procCtx, deferred, sent >>
    /\ \E s \in sources :
         /\ s.msg = m
         /\ s.state = "scheduled"
         /\ now >= s.end
         /\ sources' = (sources \ {s}) \cup {[s EXCEPT !.state = "ended"]}
         /\ audioQueueRef' = audioQueueRef \ {m}
    /\ UNCHANGED << mounted, audioTab, isListening, audioError, sessionPromiseRef,
                    mediaStreamRef, audioContextRef, scriptProcessorRef,
                    mediaStreamSourceRef, outputAudioContextRef, nextStartTimeRef,
                    startPc, startTab, streams, inCtxOpen, outCtxOpen, outCreated,
                    sess, closeCalled, procs, msgCount, decoding, lastInterrupt, now >>

\* the session closes (after close(), or from the server's side): onClose, 148
OnClose(k) ==
    /\ UNCHANGED appVars
    /\ UNCHANGED clicks
    /\ UNCHANGED << procCtx, deferred, sent >>
    /\ sess[k] = "open"
    /\ sess' = [sess EXCEPT ![k] = "closed"]
    /\ StopListening
    /\ UNCHANGED << mounted, audioTab, audioError, startPc, startTab, outCreated,
                    msgCount, decoding, lastInterrupt, now >>

\* onError that shows the error but leaves the session running
OnErrorKeepsSession(k) ==
    /\ UNCHANGED appVars
    /\ UNCHANGED clicks
    /\ k \in LiveSessions
    /\ audioError' = SetState("A connection error occurred.", audioError)
    /\ UNCHANGED << isListening, sessionPromiseRef, closeCalled, mediaStreamRef,
                    streams, scriptProcessorRef, procs, mediaStreamSourceRef,
                    audioContextRef, inCtxOpen, outputAudioContextRef, outCtxOpen,
                    sources, audioQueueRef, nextStartTimeRef >>
    /\ UNCHANGED << mounted, audioTab >>
    /\ UNCHANGED StopFrame

\* the session reports an error: onError, 149-153
OnError(k) ==
    /\ UNCHANGED appVars
    /\ UNCHANGED clicks
    /\ k \in LiveSessions
    /\ audioError' = SetState("A connection error occurred.", audioError)
    /\ StopListening
    /\ UNCHANGED << mounted, audioTab >>
    /\ UNCHANGED StopFrame

\* the wall clock advances
Tick ==
    /\ UNCHANGED appVars
    /\ UNCHANGED clicks
    /\ UNCHANGED << procCtx, deferred, sent >>
    /\ now < MaxTime
    /\ now' = now + 1
    /\ UNCHANGED << mounted, audioTab, isListening, audioError, sessionPromiseRef,
                    mediaStreamRef, audioContextRef, scriptProcessorRef,
                    mediaStreamSourceRef, outputAudioContextRef, nextStartTimeRef,
                    audioQueueRef, startPc, startTab, streams, inCtxOpen, outCtxOpen,
                    outCreated, sess, closeCalled, procs, msgCount, decoding,
                    sources, lastInterrupt >>

\* ------------------------------------------------------------ TextFeatures
Features == {"TEXT", "IMAGE", "VIDEO", "AUDIO"}

Greeting == "Hello! How can I help you today? You can ask me anything, or enable special modes like Grounding for real-time info or Thinking Mode for complex problems."
Apology  == "Sorry, I encountered an error. Please try again."

Inputs    == {"", " ", "hi"}          \* what the user may have typed
Citations == {<< >>, << "chunk" >>}   \* groundingChunks of a response

\* String.prototype.trim on the inputs above
Trim(v) == IF v = " " THEN "" ELSE v

\* the state of a TextFeatures that is not mounted, useState/useRef defaults, 9-18
ChatFresh ==
    [messages |-> << >>, input |-> "", chatLoading |-> FALSE, useGrounding |-> FALSE,
     useMaps |-> FALSE, useThinkingMode |-> FALSE, chatRef |-> 0, chatReq |-> "none"]

\* after the mount effect, 20-23
ChatMounted ==
    [ChatFresh EXCEPT !.messages = << [role |-> "model", text |-> Greeting] >>,
                      !.chatRef = 1]

ChatIs(c) ==
    /\ messages = c.messages
    /\ input = c.input
    /\ chatLoading = c.chatLoading
    /\ useGrounding = c.useGrounding
    /\ useMaps = c.useMaps
    /\ useThinkingMode = c.useThinkingMode
    /\ chatRef = c.chatRef
    /\ chatReq = c.chatReq

\* a TextFeatures is made anew
ChatBecomes(c) ==
    /\ messages' = c.messages
    /\ input' = c.input
    /\ chatLoading' = c.chatLoading
    /\ useGrounding' = c.useGrounding
    /\ useMaps' = c.useMaps
    /\ useThinkingMode' = c.useThinkingMode
    /\ chatRef' = c.chatRef
    /\ chatReq' = c.chatReq

\* the text input's onChange, 171; the input is disabled while a request is out
SetInput(v) ==
    /\ activeFeature = "TEXT"
    /\ ~chatLoading
    /\ v # input
    /\ input' = v
    /\ failedSince' = FALSE
    /\ UNCHANGED << messages, chatLoading, useGrounding, useMaps, useThinkingMode,
                    chatRef, chatReq >>
    /\ UNCHANGED << appShell, imageVars, videoVars, audioVars,
                    submits, sdkRequests, failures, failReports >>

\* the three ModeToggle checkboxes, 107-127 (the geolocation lookup that follows
\* a Maps toggle is left out)
ToggleMode(mode) ==
    /\ activeFeature = "TEXT"
    /\ \/ /\ mode = "Grounding"
          /\ useGrounding' = ~useGrounding
          /\ useThinkingMode' = IF ~useGrounding THEN FALSE ELSE useThinkingMode
          /\ UNCHANGED useMaps
       \/ /\ mode = "Use Maps"
          /\ useGrounding' = IF ~useMaps /\ ~useGrounding THEN TRUE ELSE useGrounding
          /\ useMaps' = ~useMaps
          /\ UNCHANGED useThinkingMode
       \/ /\ mode = "Thinking Mode"
          /\ useThinkingMode' = ~useThinkingMode
          /\ useGrounding' = IF ~useThinkingMode THEN FALSE ELSE useGrounding
          /\ UNCHANGED useMaps
    /\ failedSince' = FALSE
    /\ UNCHANGED << messages, input, chatLoading, chatRef, chatReq >>
    /\ UNCHANGED << appShell, imageVars, videoVars, audioVars,
                    submits, sdkRequests, failures, failReports >>

\* the SDK call handleSubmit picks, 58-65
ChatCall ==
    IF useThinkingMode THEN "runComplexTask"
    ELSE IF useGrounding THEN "runGroundedSearch"
    ELSE "sendMessage"

\* handleSubmit up to its await, 47-65
ChatSubmit ==
    /\ activeFeature = "TEXT"
    /\ Trim(input) # "" /\ ~chatLoading
    /\ submits < MaxSubmits
    /\ submits' = submits + 1
    /\ failedSince' = FALSE
    /\ input' = ""
    /\ IF ChatCall = "sendMessage" /\ chatRef = 0
       THEN \* "Chat not initialized" is thrown and caught before any request
            /\ messages' = messages \o << [role |-> "user", text |-> input],
                                          [role |-> "model", text |-> Apology] >>
            /\ UNCHANGED << chatLoading, chatReq, sdkRequests >>
       ELSE /\ messages' = Append(messages, [role |-> "user", text |-> input])
            /\ chatLoading' = TRUE
            /\ chatReq' = ChatCall
            /\ sdkRequests' = sdkRequests + 1
    /\ UNCHANGED << useGrounding, useMaps, useThinkingMode, chatRef >>
    /\ UNCHANGED << appShell, imageVars, videoVars, audioVars, failures, failReports >>

\* ChatResolve with the bug of overwriting the last entry instead of appending
ChatResolveOverwrite(text, cites) ==
    /\ chatReq # "none"
    /\ messages' = [messages EXCEPT ![Len(messages)] =
                        [role |-> "model", text |-> text, citations |-> cites]]
    /\ chatLoading' = FALSE
    /\ chatReq' = "none"
    /\ UNCHANGED << input, useGrounding, useMaps, useThinkingMode, chatRef >>
    /\ UNCHANGED << appShell, imageVars, videoVars, audioVars, histVars >>

\* the request resolves: handleSubmit 67-72 and its finally
ChatResolve(text, cites) ==
    /\ chatReq # "none"
    /\ messages' = Append(messages, [role |-> "model", text |-> text, citations |-> cites])
    /\ chatLoading' = FALSE
    /\ chatReq' = "none"
    /\ UNCHANGED << input, useGrounding, useMaps, useThinkingMode, chatRef >>
    /\ UNCHANGED << appShell, imageVars, videoVars, audioVars, histVars >>

\* ChatReject with the bug of a catch block that shows nothing
ChatRejectSilent ==
    /\ chatReq # "none"
    /\ chatLoading' = FALSE
    /\ chatReq' = "none"
    /\ failures' = failures + 1
    /\ failReports' = failReports + 1
    /\ failedSince' = TRUE
    /\ UNCHANGED << messages, input, useGrounding, useMaps, useThinkingMode, chatRef >>
    /\ UNCHANGED << appShell, imageVars, videoVars, audioVars, submits, sdkRequests >>

\* the request rejects: handleSubmit's catch, 74-77, and its finally
ChatReject ==
    /\ chatReq # "none"
    /\ messages' = Append(messages, [role |-> "model", text |-> Apology])
    /\ chatLoading' = FALSE
    /\ chatReq' = "none"
    /\ failures' = failures + 1
    /\ failReports' = failReports + 1
    /\ failedSince' = TRUE
    /\ UNCHANGED << input, useGrounding, useMaps, useThinkingMode, chatRef >>
    /\ UNCHANGED << appShell, imageVars, videoVars, audioVars, submits, sdkRequests >>

\* ----------------------------------------------------------- ImageFeatures
ImageTabs == {"generate", "edit", "analyze"}
Prompts   == {"", "p"}

\* what the geminiService wrapper of an operation returns: a data or blob URL
\* of an image or a video, or the response text (part_000 45-96, 111-156)
ArtifactForm(screen, op) ==
    IF op = "analyze" THEN "text" ELSE IF screen = "IMAGE" THEN "image" ELSE "video"

\* the null result of useState<string | null>(null), 13 and 180
NoResult == [op |-> "none", form |-> "none"]

\* useState defaults, ImageFeatures.tsx 8-15
ImageFresh ==
    [imageTab |-> "generate", imagePrompt |-> "", imageFile |-> "null",
     imageResult |-> NoResult, imageLoading |-> FALSE, imageError |-> "null",
     imagePc |-> "idle", imageOp |-> "generate"]

ImageIs(c) ==
    /\ imageTab = c.imageTab
    /\ imagePrompt = c.imagePrompt
    /\ imageFile = c.imageFile
    /\ imageResult = c.imageResult
    /\ imageLoading = c.imageLoading
    /\ imageError = c.imageError
    /\ imagePc = c.imagePc
    /\ imageOp = c.imageOp

\* a ImageFeatures is made anew
ImageBecomes(c) ==
    /\ imageTab' = c.imageTab
    /\ imagePrompt' = c.imagePrompt
    /\ imageFile' = c.imageFile
    /\ imageResult' = c.imageResult
    /\ imageLoading' = c.imageLoading
    /\ imageError' = c.imageError
    /\ imagePc' = c.imagePc
    /\ imageOp' = c.imageOp

ImageFrame == << appShell, chatVars, videoVars, audioVars >>

\* TabButton of the image screen, 66-73
ImageTabClick(t) ==
    /\ activeFeature = "IMAGE"
    /\ t # imageTab
    /\ imageTab' = t
    /\ failedSince' = FALSE
    /\ UNCHANGED << imagePrompt, imageFile, imageResult, imageLoading, imageError,
                    imagePc, imageOp >>
    /\ UNCHANGED ImageFrame
    /\ UNCHANGED << submits, sdkRequests, failures, failReports >>

\* the prompt textarea, 79-89, disabled while loading
ImageSetPrompt(v) ==
    /\ activeFeature = "IMAGE"
    /\ ~imageLoading
    /\ v # imagePrompt
    /\ imagePrompt' = v
    /\ failedSince' = FALSE
    /\ UNCHANGED << imageTab, imageFile, imageResult, imageLoading, imageError,
                    imagePc, imageOp >>
    /\ UNCHANGED ImageFrame
    /\ UNCHANGED << submits, sdkRequests, failures, failReports >>

\* handleFileSelect, 17-21; the upload shows on the edit and analyze tabs
ImageFileSelect ==
    /\ activeFeature = "IMAGE"
    /\ imageTab \in {"edit", "analyze"}
    /\ imageFile' = "file"
    /\ imageResult' = NoResult
    /\ failedSince' = FALSE
    /\ imageFile # "file" \/ imageResult # NoResult
    /\ UNCHANGED << imageTab, imagePrompt, imageLoading, imageError, imagePc, imageOp >>
    /\ UNCHANGED ImageFrame
    /\ UNCHANGED << submits, sdkRequests, failures, failReports >>

\* the submit button is enabled, 109
ImageCanSubmit ==
    /\ ~imageLoading
    /\ imagePrompt # ""
    /\ imageTab \in {"edit", "analyze"} => imageFile # "null"

\* handleSubmit up to its first await, 36-49
ImageSubmit ==
    /\ activeFeature = "IMAGE"
    /\ ImageCanSubmit
    /\ submits < MaxSubmits
    /\ submits' = submits + 1
    /\ failedSince' = FALSE
    /\ imageLoading' = TRUE
    /\ imageError' = "null"
    /\ imageResult' = NoResult
    /\ imageOp' = imageTab
    /\ IF imageTab = "generate"
       THEN imagePc' = "request" /\ sdkRequests' = sdkRequests + 1
       ELSE imagePc' = "reading" /\ UNCHANGED sdkRequests
    /\ UNCHANGED << imageTab, imagePrompt, imageFile >>
    /\ UNCHANGED ImageFrame
    /\ UNCHANGED << failures, failReports >>

\* fileToBase64 resolves, 49-56: the edit or analyze request goes out
ImageRead ==
    /\ imagePc = "reading"
    /\ imagePc' = "request"
    /\ sdkRequests' = sdkRequests + 1
    /\ UNCHANGED << imageTab, imagePrompt, imageFile, imageResult, imageLoading,
                    imageError, imageOp >>
    /\ UNCHANGED ImageFrame
    /\ UNCHANGED << submits, failures, failReports, failedSince >>

\* fileToBase64 rejects: catch and finally, 58-63, no request was made
ImageReadFail ==
    /\ imagePc = "reading"
    /\ imagePc' = "idle"
    /\ imageError' = "An unexpected error occurred."
    /\ imageLoading' = FALSE
    /\ UNCHANGED << imageTab, imagePrompt, imageFile, imageResult, imageOp >>
    /\ UNCHANGED ImageFrame
    /\ UNCHANGED histVars

\* the request resolves: setResult and finally, 45, 52, 55, 61-63
ImageResolve ==
    /\ imagePc = "request"
    /\ imagePc' = "idle"
    /\ imageResult' = [op |-> imageOp, form |-> ArtifactForm("IMAGE", imageOp)]
    /\ imageLoading' = FALSE
    /\ UNCHANGED << imageTab, imagePrompt, imageFile, imageError, imageOp >>
    /\ UNCHANGED ImageFrame
    /\ UNCHANGED histVars

\* the request rejects: catch and finally, 58-63
ImageReject ==
    /\ imagePc = "request"
    /\ imagePc' = "idle"
    /\ imageError' = "request failed"
    /\ imageLoading' = FALSE
    /\ failures' = failures + 1
    /\ failReports' = failReports + 1
    /\ failedSince' = TRUE
    /\ UNCHANGED << imageTab, imagePrompt, imageFile, imageResult, imageOp >>
    /\ UNCHANGED ImageFrame
    /\ UNCHANGED << submits, sdkRequests >>

\* the form in which the result pane shows the stored result, 131-151
ImageShownAs ==
    IF ~imageLoading /\ imageError = "null" /\ imageResult # NoResult
    THEN IF imageTab = "analyze" THEN "text" ELSE "image"
    ELSE "none"

\* ----------------------------------------------------------- VideoFeatures
VideoTabs == {"generate", "analyze"}

\* useState defaults, ImageFeatures.tsx 175-184, before the key check of the
\* mount effect (215-219) has answered
VideoFresh ==
    [videoTab |-> "generate", videoPrompt |-> "", videoFile |-> "null",
     videoImageFile |-> "null", videoResult |-> NoResult, videoLoading |-> FALSE,
     videoError |-> "null", apiKeyReady |-> FALSE, keyCheck |-> FALSE,
     videoPc |-> "idle", polls |-> 0]

VideoMounted == [VideoFresh EXCEPT !.keyCheck = TRUE]

VideoIs(c) ==
    /\ videoTab = c.videoTab
    /\ videoPrompt = c.videoPrompt
    /\ videoFile = c.videoFile
    /\ videoImageFile = c.videoImageFile
    /\ videoResult = c.videoResult
    /\ videoLoading = c.videoLoading
    /\ videoError = c.videoError
    /\ apiKeyReady = c.apiKeyReady
    /\ keyCheck = c.keyCheck
    /\ videoPc = c.videoPc
    /\ polls = c.polls

\* a VideoFeatures is made anew
VideoBecomes(c) ==
    /\ videoTab' = c.videoTab
    /\ videoPrompt' = c.videoPrompt
    /\ videoFile' = c.videoFile
    /\ videoImageFile' = c.videoImageFile
    /\ videoResult' = c.videoResult
    /\ videoLoading' = c.videoLoading
    /\ videoError' = c.videoError
    /\ apiKeyReady' = c.apiKeyReady
    /\ keyCheck' = c.keyCheck
    /\ videoPc' = c.videoPc
    /\ polls' = c.polls

VideoFrame == << appShell, chatVars, imageVars, audioVars >>

\* TabButton of the video screen, 358-365, and the effect that checks the key
\* when the tab becomes generate, 215-219
VideoTabClick(t) ==
    /\ activeFeature = "VIDEO"
    /\ t # videoTab
    /\ videoTab' = t
    /\ keyCheck' = IF t = "generate" THEN TRUE ELSE keyCheck
    /\ failedSince' = FALSE
    /\ UNCHANGED << videoPrompt, videoFile, videoImageFile, videoResult, videoLoading,
                    videoError, apiKeyReady, videoPc, polls >>
    /\ UNCHANGED VideoFrame
    /\ UNCHANGED << submits, sdkRequests, failures, failReports >>

\* checkApiKey answers, 188-201
KeyChecked(ready) ==
    /\ activeFeature = "VIDEO"
    /\ keyCheck
    /\ keyCheck' = FALSE
    /\ apiKeyReady' = ready
    /\ UNCHANGED << videoTab, videoPrompt, videoFile, videoImageFile, videoResult,
                    videoLoading, videoError, videoPc, polls >>
    /\ UNCHANGED VideoFrame
    /\ UNCHANGED histVars

\* handleSelectKey, 203-212: the button shows on the generate tab without a key
SelectKey(ok) ==
    /\ activeFeature = "VIDEO"
    /\ videoTab = "generate" /\ ~apiKeyReady
    /\ IF ok
       THEN apiKeyReady' = TRUE /\ UNCHANGED videoError
       ELSE videoError' = "Failed to open API key selection. Please try again."
            /\ UNCHANGED apiKeyReady
    /\ failedSince' = FALSE
    /\ UNCHANGED << videoTab, videoPrompt, videoFile, videoImageFile, videoResult,
                    videoLoading, keyCheck, videoPc, polls >>
    /\ UNCHANGED VideoFrame
    /\ UNCHANGED << submits, sdkRequests, failures, failReports >>

\* the prompt textareas, 333-338 and 377-382
VideoSetPrompt(v) ==
    /\ activeFeature = "VIDEO"
    /\ videoTab = "generate" => apiKeyReady
    /\ v # videoPrompt
    /\ videoPrompt' = v
    /\ failedSince' = FALSE
    /\ UNCHANGED << videoTab, videoFile, videoImageFile, videoResult, videoLoading,
                    videoError, apiKeyReady, keyCheck, videoPc, polls >>
    /\ UNCHANGED VideoFrame
    /\ UNCHANGED << submits, sdkRequests, failures, failReports >>

\* the two FileUpload fields, 339 and 383
VideoFileSelect ==
    /\ activeFeature = "VIDEO"
    /\ IF videoTab = "generate"
       THEN apiKeyReady /\ videoImageFile = "null"
            /\ videoImageFile' = "file" /\ UNCHANGED videoFile
       ELSE videoFile = "null"
            /\ videoFile' = "file" /\ UNCHANGED videoImageFile
    /\ failedSince' = FALSE
    /\ UNCHANGED << videoTab, videoPrompt, videoResult, videoLoading, videoError,
                    apiKeyReady, keyCheck, videoPc, polls >>
    /\ UNCHANGED VideoFrame
    /\ UNCHANGED << submits, sdkRequests, failures, failReports >>

\* the submit buttons are enabled, 351 and 384
VideoCanSubmit ==
    /\ ~videoLoading
    /\ IF videoTab = "generate"
       THEN apiKeyReady /\ (videoPrompt # "" \/ videoImageFile # "null")
       ELSE videoPrompt # "" /\ videoFile # "null"

\* handleSubmit up to its first await, 249-265
VideoSubmit ==
    /\ activeFeature = "VIDEO"
    /\ VideoCanSubmit
    /\ submits < MaxSubmits
    /\ submits' = submits + 1
    /\ failedSince' = FALSE
    /\ videoLoading' = TRUE
    /\ videoError' = "null"
    /\ videoResult' = NoResult
    /\ polls' = 0
    /\ videoPc' = IF videoTab = "analyze" THEN "frames"
                  ELSE IF videoImageFile # "null" THEN "reading" ELSE "veo"
    /\ UNCHANGED << videoTab, videoPrompt, videoFile, videoImageFile, apiKeyReady, keyCheck >>
    /\ UNCHANGED VideoFrame
    /\ UNCHANGED << sdkRequests, failures, failReports >>

\* a step of the handler that is no SDK request succeeds: fileToBase64 (258),
\* getVeoAiInstance followed by the generateVideos request (part_000 112-129),
\* extractFramesFromVideo followed by the analyzeVideo request (265-266)
VideoStep ==
    /\ videoPc \in {"reading", "veo", "frames"}
    /\ videoPc' = CASE videoPc = "reading" -> "veo"
                    [] videoPc = "veo"     -> "operation"
                    [] videoPc = "frames"  -> "analyze"
    /\ sdkRequests' = IF videoPc = "reading" THEN sdkRequests ELSE sdkRequests + 1
    /\ UNCHANGED << videoTab, videoPrompt, videoFile, videoImageFile, videoResult,
                    videoLoading, videoError, apiKeyReady, keyCheck, polls >>
    /\ UNCHANGED VideoFrame
    /\ UNCHANGED << submits, failures, failReports, failedSince >>

\* such a step fails, or the download does: catch and finally, 269-279
VideoStepFail ==
    /\ videoPc \in {"reading", "veo", "fetch"}
    /\ videoPc' = "idle"
    /\ videoError' = "An unexpected error occurred."
    /\ videoLoading' = FALSE
    /\ UNCHANGED << videoTab, videoPrompt, videoFile, videoImageFile, videoResult,
                    apiKeyReady, keyCheck, polls >>
    /\ UNCHANGED VideoFrame
    /\ UNCHANGED histVars

\* generateVideos or a poll answers, part_000 129-139: poll again while the
\* operation is not done, else download the video or fail for want of a link
VideoOperation(done, link) ==
    /\ videoPc = "operation"
    /\ IF ~done
       THEN /\ polls < MaxPolls
            /\ polls' = polls + 1
            /\ sdkRequests' = sdkRequests + 1
            /\ UNCHANGED << videoPc, videoError, videoLoading >>
       ELSE IF link
       THEN /\ videoPc' = "fetch"
            /\ UNCHANGED << polls, sdkRequests, videoError, videoLoading >>
       ELSE /\ videoPc' = "idle"
            /\ videoError' = "Video generation failed or returned no link."
            /\ videoLoading' = FALSE
            /\ UNCHANGED << polls, sdkRequests >>
    /\ UNCHANGED << videoTab, videoPrompt, videoFile, videoImageFile, videoResult,
                    apiKeyReady, keyCheck >>
    /\ UNCHANGED VideoFrame
    /\ UNCHANGED << submits, failures, failReports, failedSince >>

\* the download or the analysis resolves: setResult and finally, 260, 267, 276-279
VideoResolve ==
    /\ videoPc \in {"fetch", "analyze"}
    /\ videoPc' = "idle"
    /\ videoResult' = IF videoPc = "fetch"
                      THEN [op |-> "generate", form |-> ArtifactForm("VIDEO", "generate")]
                      ELSE [op |-> "analyze", form |-> ArtifactForm("VIDEO", "analyze")]
    /\ videoLoading' = FALSE
    /\ UNCHANGED << videoTab, videoPrompt, videoFile, videoImageFile, videoError,
                    apiKeyReady, keyCheck, polls >>
    /\ UNCHANGED VideoFrame
    /\ UNCHANGED histVars

\* VideoReject with the bug of a catch block that tries the request again
VideoRejectRetry(notFound) ==
    /\ videoPc \in {"operation", "analyze"}
    /\ sdkRequests' = sdkRequests + 1
    /\ failures' = failures + 1
    /\ failedSince' = TRUE
    /\ UNCHANGED << videoTab, videoPrompt, videoFile, videoImageFile, videoResult,
                    videoLoading, videoError, apiKeyReady, keyCheck, videoPc, polls >>
    /\ UNCHANGED VideoFrame
    /\ UNCHANGED << submits, failReports >>

\* an SDK request of the handler rejects: catch and finally, 269-279
VideoReject(notFound) ==
    /\ videoPc \in {"operation", "analyze"}
    /\ videoPc' = "idle"
    /\ videoError' = IF notFound
                     THEN "API Key not found or invalid. Please select a valid key."
                     ELSE "request failed"
    /\ apiKeyReady' = IF notFound THEN FALSE ELSE apiKeyReady
    /\ videoLoading' = FALSE
    /\ failures' = failures + 1
    /\ failReports' = failReports + 1
    /\ failedSince' = TRUE
    /\ UNCHANGED << videoTab, videoPrompt, videoFile, videoImageFile, videoResult,
                    keyCheck, polls >>
    /\ UNCHANGED VideoFrame
    /\ UNCHANGED << submits, sdkRequests >>

\* the form in which the result pane shows the stored result, 397-406
VideoShownAs ==
    IF ~videoLoading /\ videoError = "null" /\ videoResult # NoResult
    THEN IF videoTab = "generate" THEN "video" ELSE "text"
    ELSE "none"

\* --------------------------------------------------------------------- App
\* RenderActiveFeature with the bug of a case that returns the wrong panel
RenderActiveFeatureWrongCase(feature) ==
    CASE feature = "TEXT"  -> {"TextFeatures"}
      [] feature = "IMAGE" -> {"ImageFeatures"}
      [] feature = "VIDEO" -> {"ImageFeatures"}
      [] feature = "AUDIO" -> {"AudioFeatures"}
      [] OTHER             -> {"TextFeatures"}

\* renderActiveFeature, part_002 12-25: the panels rendered
RenderActiveFeature(feature) ==
    CASE feature = "TEXT"  -> {"TextFeatures"}
      [] feature = "IMAGE" -> {"ImageFeatures"}
      [] feature = "VIDEO" -> {"VideoFeatures"}
      [] feature = "AUDIO" -> {"AudioFeatures"}
      [] OTHER             -> {"TextFeatures"}

\* a sidebar button, part_001 27-42: setActiveFeature; a change of feature
\* unmounts the panel shown, whose state and pending handlers are dropped, and
\* mounts a fresh one; leaving the audio screen runs its cleanup
SidebarClick(f) ==
    /\ activeFeature' = f
    /\ lastClicked' = f
    /\ IF f = activeFeature
       THEN UNCHANGED << chatVars, imageVars, videoVars, audioVars, histVars >>
       ELSE /\ ChatBecomes(IF f = "TEXT" THEN ChatMounted ELSE ChatFresh)
            /\ ImageBecomes(ImageFresh)
            /\ VideoBecomes(IF f = "VIDEO" THEN VideoMounted ELSE VideoFresh)
            /\ failedSince' = FALSE
            /\ UNCHANGED << submits, sdkRequests, failures, failReports >>
            /\ IF activeFeature = "AUDIO"
               THEN AudioCleanup
               ELSE /\ mounted' = (f = "AUDIO")
                    /\ UNCHANGED << audioTab, isListening, audioError, sessionPromiseRef,
                                    mediaStreamRef, audioContextRef, scriptProcessorRef,
                                    mediaStreamSourceRef, outputAudioContextRef,
                                    nextStartTimeRef, audioQueueRef, startPc, startTab,
                                    streams, inCtxOpen, outCtxOpen, outCreated, sess,
                                    closeCalled, procs, procCtx, deferred, sent,
                                    msgCount, decoding, sources, lastInterrupt, now,
                                    clicks >>

\* the sidebar click that takes the user away from the audio screen (to the
\* chat screen: which screen follows makes no difference to the audio screen)
LeaveAudio ==
    /\ activeFeature = "AUDIO"
    /\ SidebarClick("TEXT")

\* --------------------------------------------------------- specifications
HistInit ==
    /\ submits = 0
    /\ sdkRequests = 0
    /\ failures = 0
    /\ failReports = 0
    /\ failedSince = FALSE

\* the app as it starts: the chat screen is shown
Init ==
    /\ activeFeature = "TEXT"
    /\ lastClicked = "TEXT"
    /\ ChatIs(ChatMounted)
    /\ ImageIs(ImageFresh)
    /\ VideoIs(VideoFresh)
    /\ mounted = FALSE
    /\ AudioFresh
    /\ HistInit

Next ==
    \/ \E f \in Features : SidebarClick(f)
    \/ \E v \in Inputs : SetInput(v)
    \/ \E mode \in {"Grounding", "Use Maps", "Thinking Mode"} : ToggleMode(mode)
    \/ ChatSubmit
    \/ \E text \in {"answer"}, cites \in Citations : ChatResolve(text, cites)
    \/ ChatReject
    \/ \E t \in ImageTabs : ImageTabClick(t)
    \/ \E v \in Prompts : ImageSetPrompt(v)
    \/ ImageFileSelect
    \/ ImageSubmit
    \/ ImageRead
    \/ ImageReadFail
    \/ ImageResolve
    \/ ImageReject
    \/ \E t \in VideoTabs : VideoTabClick(t)
    \/ \E ready \in BOOLEAN : KeyChecked(ready)
    \/ \E ok \in BOOLEAN : SelectKey(ok)
    \/ \E v \in Prompts : VideoSetPrompt(v)
    \/ VideoFileSelect
    \/ VideoSubmit
    \/ VideoStep
    \/ VideoStepFail
    \/ \E done \in BOOLEAN, link \in BOOLEAN : VideoOperation(done, link)
    \/ VideoResolve
    \/ \E notFound \in BOOLEAN : VideoReject(notFound)

Spec == Init /\ [][Next]_vars

\* the audio screen just after the user has opened it
InitAudio ==
    /\ activeFeature = "AUDIO"
    /\ lastClicked = "AUDIO"
    /\ ChatIs(ChatFresh)
    /\ ImageIs(ImageFresh)
    /\ VideoIs(VideoFresh)
    /\ mounted = TRUE
    /\ AudioFresh
    /\ HistInit

\* the first click on Start
FirstStart ==
    /\ IdleStarts = StartIds
    /\ ClickStart

\* a message of the live session, while SpecAudio has messages left: without
\* audio, or with a chunk of one tick; interruptions are left to SpecPlay
LifeMessage(k, audio) ==
    /\ msgCount < MaxLifeMsgs
    /\ OnMessage(k, IF audio THEN 1 ELSE 0, FALSE)

\* the life cycle of the audio screen: any clicks, starts and session events,
\* and the unmount, with few messages, the clock standing still and the
\* microphone blocks left out
NextAudio ==
    \/ ClickStart
    \/ \E k \in StartIds : MediaResolve(k)
    \/ \E k \in StartIds : MediaReject(k)
    \/ \E k \in StartIds, made \in 0..2 : SetupFail(k, made)
    \/ \E t \in AudioTabs : ClickTab(t)
    \/ LeaveAudio
    \/ \E k \in StartIds : SessionOpen(k)
    \/ \E k \in StartIds, audio \in BOOLEAN : LifeMessage(k, audio)
    \/ \E m \in 1..MaxMsgs : DecodeDone(m)
    \/ \E k \in StartIds : OnClose(k)
    \/ \E k \in StartIds : OnError(k)

SpecAudio == InitAudio /\ [][NextAudio]_vars

\* playback within one listening period: one start, any messages, the clock
\* running, until the session closes
NextPlay ==
    \/ FirstStart
    \/ \E k \in StartIds : MediaResolve(k)
    \/ \E k \in StartIds : SessionOpen(k)
    \/ \E k \in StartIds, dur \in {0} \cup Durations, intr \in BOOLEAN : OnMessage(k, dur, intr)
    \/ \E m \in 1..MaxMsgs : DecodeDone(m)
    \/ \E m \in 1..MaxMsgs : SourceEnded(m)
    \/ \E k \in StartIds : OnClose(k)
    \/ Tick

SpecPlay == InitAudio /\ [][NextPlay]_vars

\* microphone capture: any clicks, starts, session openings and closings and
\* the unmount, with the script processors firing and no server messages
NextMic ==
    \/ ClickStart
    \/ \E k \in StartIds : MediaResolve(k)
    \/ \E t \in AudioTabs : ClickTab(t)
    \/ LeaveAudio
    \/ \E k \in StartIds : SessionOpen(k)
    \/ \E p \in StartIds : AudioProcess(p)
    \/ \E k \in StartIds : OnClose(k)

SpecMic == InitAudio /\ [][NextMic]_vars

\* ------------------------------------------------------------------ claims
\* what the audio screen still has open
OpenResources ==
    [sessions |-> LiveSessions, streams |-> streams, processors |-> procs,
     contexts |-> inCtxOpen \cup outCtxOpen,
     playing |-> {s \in sources : s.state = "scheduled"}]

NothingOpen ==
    [sessions |-> {}, streams |-> {}, processors |-> {}, contexts |-> {}, playing |-> {}]

\* C1: once the audio screen has unmounted, no live session, microphone stream,
\* script processor, audio context or scheduled playback source it created is
\* still open, also when a startAssistant was awaiting the microphone
C1_UnmountReleasesAll ==
    ~mounted => OpenResources = NothingOpen

\* C2: once an interrupted message has been handled, no audio chunk whose
\* message arrived before it is still scheduled or playing, nor gets scheduled
\* later
C2_InterruptSilencesEarlier ==
    \A s \in sources : s.msg < lastInterrupt => s.state # "scheduled"

\* C3: the play intervals of two chunks never overlap and chunks play in the
\* order in which their messages arrived
C3_PlayInArrivalOrder ==
    \A a, b \in sources : a.msg < b.msg => a.end <= b.start

IsPrefix(p, q) == Len(p) <= Len(q) /\ SubSeq(q, 1, Len(p)) = p

\* C4: every accepted chat submit appends the user's message and issues one SDK
\* request, whose outcome appends one model message: after the greeting the
\* list alternates user, model, and it ends on a user message exactly while
\* the one request is out
C4_ChatAlternates ==
    /\ [](activeFeature = "TEXT" =>
            /\ Len(messages) >= 1
            /\ messages[1] = [role |-> "model", text |-> Greeting]
            /\ \A i \in 2..Len(messages) :
                 messages[i].role = IF i % 2 = 0 THEN "user" ELSE "model"
            /\ chatLoading <=> Len(messages) % 2 = 0
            /\ chatLoading <=> chatReq # "none")
    /\ [][activeFeature = "TEXT" /\ activeFeature' = "TEXT" =>
            /\ Len(messages') <= Len(messages) + 1
            /\ (Len(messages') = Len(messages) + 1 /\ chatLoading') =>
                   sdkRequests' = sdkRequests + 1
            /\ (Len(messages') = Len(messages) + 1 /\ ~chatLoading') =>
                   sdkRequests' = sdkRequests]_vars

C4_Witness ==
    /\ activeFeature = "TEXT"
    /\ ~chatLoading
    /\ Len(messages) = 5
    /\ messages[3].text = Apology
    /\ messages[5].text = "answer"

\* the failure that stands is on the screen
FailureShown ==
    CASE activeFeature = "TEXT"  -> messages[Len(messages)] = [role |-> "model", text |-> Apology]
      [] activeFeature = "IMAGE" -> imageError # "null"
      [] activeFeature = "VIDEO" -> videoError # "null"
      [] OTHER                   -> FALSE

C6_ShownInOwnForm ==
    /\ ImageShownAs # "none" => ImageShownAs = imageResult.form
    /\ VideoShownAs # "none" => VideoShownAs = videoResult.form

\* C7: every chat entry has a role of user or model and a text; only model
\* messages built from a response carry citations; while the chat screen stays
\* mounted the list only grows at its end
C7_ChatEntries ==
    /\ [](\A i \in 1..Len(messages) :
            /\ messages[i].role \in {"user", "model"}
            /\ {"role", "text"} \subseteq DOMAIN messages[i]
            /\ messages[i].role = "user" => DOMAIN messages[i] = {"role", "text"}
            /\ "citations" \in DOMAIN messages[i] =>
                   /\ messages[i].role = "model"
                   /\ messages[i].text \notin {Apology, Greeting}
                   /\ messages[i].citations \in Citations)
    /\ [][activeFeature = "TEXT" /\ activeFeature' = "TEXT" =>
            IsPrefix(messages, messages')]_vars

C7_Witness ==
    /\ Len(messages) = 5
    /\ messages[3] = [role |-> "model", text |-> "answer", citations |-> << "chunk" >>]
    /\ messages[4].role = "user"
    /\ messages[5].text = Apology

\* the panel of each feature
PanelOf ==
    [f \in Features |-> CASE f = "TEXT"  -> "TextFeatures"
                          [] f = "IMAGE" -> "ImageFeatures"
                          [] f = "VIDEO" -> "VideoFeatures"
                          [] f = "AUDIO" -> "AudioFeatures"]

\* C8: exactly one feature panel is rendered: the chat panel at first, then
\* the panel of the feature clicked last
C8_OnePanel ==
    /\ Cardinality(RenderActiveFeature(activeFeature)) = 1
    /\ RenderActiveFeature(activeFeature) = {PanelOf[lastClicked]}

C8_Witness ==
    /\ lastClicked = "VIDEO"
    /\ RenderActiveFeature(activeFeature) = {"VideoFeatures"}
    /\ keyCheck

\* C9: whenever the audio screen holds a microphone stream, an audio context or
\* a live session, isListening is true
C9_HeldOnlyWhileListening ==
    (mounted /\ << mediaStreamRef, audioContextRef, outputAudioContextRef,
                   sessionPromiseRef >> # << 0, 0, 0, 0 >>) => isListening

\* C10: there are never two open sessions, and an open session is the one
\* sessionPromiseRef refers to
C10_OneSession ==
    /\ Cardinality(LiveSessions) <= 1
    /\ \A k \in LiveSessions : sessionPromiseRef = k

\* C11: a live-session callback delivered after stopListening has run for its
\* session (onOpen, or the rest of an onMessage that was awaiting the decoding
\* of its audio) creates no source node, schedules no playback and adds
\* nothing to the playback queue
C11_LateCallbacksDoNothing ==
    [][/\ \A k \in closeCalled :
            (sess[k] = "connecting" /\ sess'[k] = "open") =>
                /\ procs' = procs
                /\ mediaStreamSourceRef' = mediaStreamSourceRef
                /\ scriptProcessorRef' = scriptProcessorRef
       /\ \A h \in decoding :
            (h \notin decoding' /\ h.sess \in closeCalled) =>
                /\ {s.msg : s \in sources'} = {s.msg : s \in sources}
                /\ audioQueueRef' = audioQueueRef]_vars

\* the idle state of the audio screen
Idle ==
    /\ ~isListening
    /\ sessionPromiseRef = 0
    /\ mediaStreamRef = 0
    /\ scriptProcessorRef = 0
    /\ mediaStreamSourceRef = 0
    /\ audioContextRef = 0
    /\ outputAudioContextRef = 0
    /\ audioQueueRef = {}
    /\ nextStartTimeRef = 0

\* the steps in which stopListening runs: the Stop button, a tab click, the
\* unmount cleanup, onClose and onError
StopListeningRuns ==
    \/ isListening /\ ClickStart
    \/ \E t \in AudioTabs : ClickTab(t)
    \/ LeaveAudio
    \/ \E k \in StartIds : OnClose(k)
    \/ \E k \in StartIds : OnError(k)

\* what stopListening releases or resets
StopTouched ==
    << isListening, sessionPromiseRef, closeCalled, mediaStreamRef, streams,
       scriptProcessorRef, procs, mediaStreamSourceRef, audioContextRef, inCtxOpen,
       outputAudioContextRef, outCtxOpen, sources, audioQueueRef, nextStartTimeRef >>

\* C12: every run of stopListening leaves the audio screen idle (isListening
\* false, all six refs null, the playback queue empty, nextStartTime 0), and a
\* run that begins in the idle state releases and resets nothing
C12_StopLeavesIdle ==
    [][StopListeningRuns => (Idle' /\ (Idle => UNCHANGED StopTouched))]_vars

\* stopListening has stopped a queued source, and it has also run on the idle
\* screen: the one start made the screen busy at most twice (its click and its
\* continuation), while stopListening ran at least three times (two clicks
\* and onClose)
C12_Witness ==
    /\ Idle
    /\ \E s \in sources : s.state = "stopped"
    /\ sess[1] = "closed"
    /\ clicks >= 3
    /\ \A k \in StartIds : startPc[k] = IF k = 1 THEN "done" ELSE "idle"

\* C13: after startAssistant has failed, whether getUserMedia rejected or the
\* audio set-up threw, the failed start has opened no live session and none
\* of the microphone stream and audio contexts it acquired is still held
C13_FailedStartHoldsNothing ==
    \A k \in StartIds :
        startPc[k] = "failed" =>
            /\ sess[k] = "none"
            /\ k \notin streams
            /\ k \notin inCtxOpen
            /\ k \notin outCtxOpen

\* C14: onError of a live session sets the error text to "A connection error
\* occurred." and leaves the screen idle; onClose leaves the screen idle and
\* the error text as it was; the Start button, when it starts a new session,
\* clears the error text
C14_ErrorCloseRestart ==
    [][/\ (mounted /\ \E k \in StartIds : OnError(k)) =>
            (audioError' = "A connection error occurred." /\ Idle')
       /\ (\E k \in StartIds : OnClose(k)) =>
            (Idle' /\ audioError' = audioError)
       /\ (mounted /\ ~isListening /\ ClickStart) =>
            audioError' = "null"]_vars

\* onError of a session that was open has run: the error is shown, the screen
\* is idle and close() was called on the session
C14_Witness ==
    /\ mounted
    /\ audioError = "A connection error occurred."
    /\ Idle
    /\ \E k \in closeCalled : sess[k] = "open"

\* C15: every call of sendRealtimeInput is made on the session that
\* sessionPromiseRef holds at the time of the call, so none is made while the
\* ref is null after stopListening, and none is made on a session on which
\* close() has been called
C15_SendOnlyToCurrent ==
    \A m \in sent : m.ref = m.to /\ ~m.closed

\* C16: a buffer source is scheduled for playback only while the active tab
\* of the audio screen is "assistant", whichever tab the session was started
\* under
C16_PlaybackOnlyOnAssistantTab ==
    [][(\E s \in sources' : s.msg \notin {x.msg : x \in sources}) =>
            audioTab = "assistant"]_vars

====
